---------------------------- MODULE Spec2Model ----------------------------
(***************************************************************************)
(* The invoice dashboard of src/main.py as a state machine.                *)
(*                                                                         *)
(* The script main() is run once when the session starts and again, top to *)
(* bottom, after every interaction with one of its controls.  A state is   *)
(* the loaded frame df, the value every control returned in the latest run *)
(* and everything that run computed.  An action is one interaction         *)
(* followed by the whole of main().                                        *)
(*                                                                         *)
(* A frame is a sequence of rows; a row is a record that carries its       *)
(* pandas index label in the field "index".  A timestamp is a record       *)
(* [date |-> day ordinal counted from Epoch, time |-> time of day]; a      *)
(* calendar date is a record [year, month, day].  Columns of the source    *)
(* that no computation reads (heading, internalReference, supplierInvoice, *)
(* propertyAmount, propertyCount, year, month) are left out of the rows.   *)
(***************************************************************************)
EXTENDS Integers, Sequences, FiniteSets

VARIABLES
    df,          \* the frame process_invoices returned, cached for the session
    sort_ties,   \* what the build's sort_values does with equal keys
    run          \* the values of main()'s variables at the end of the latest run

vars == <<df, sort_ties, run>>

----------------------------------------------------------------------------
(* Bounds of the model                                                     *)

\* longest frame whose rows vary in every column
MaxGeneralRows == 2
\* longest frame (its rows vary in date and category only)
MaxRows == 3
\* last day ordinal of the calendar window that starts at Epoch
MaxDay == 2
\* largest time of day of a timestamp (0 is midnight)
MaxTime == 1
\* largest invoiceGross
MaxAmount == 2
\* largest rows-per-page choice
MaxPageSize == 2

----------------------------------------------------------------------------
(* Generic helpers                                                         *)

Range(s) == {s[i] : i \in 1..Len(s)}

Min(a, b) == IF a <= b THEN a ELSE b

Max(a, b) == IF a >= b THEN a ELSE b

RECURSIVE SumSeq(_)
SumSeq(s) == IF s = <<>> THEN 0 ELSE Head(s) + SumSeq(Tail(s))

RECURSIVE Concat(_)
Concat(ss) == IF ss = <<>> THEN <<>> ELSE Head(ss) \o Concat(Tail(ss))

SeqsOfLen(S, n) == [1..n -> S]

SeqsUpTo(S, n) == UNION {SeqsOfLen(S, k) : k \in 1..n}

----------------------------------------------------------------------------
(* Calendar: what pandas' Timestamp.date(), to_period("M") and strftime do *)

Epoch == [year |-> 2023, month |-> 12, day |-> 31]

IsLeap(y) == (y % 4 = 0 /\ y % 100 # 0) \/ y % 400 = 0

DaysInMonth(y, m) ==
    IF m = 2 THEN (IF IsLeap(y) THEN 29 ELSE 28)
    ELSE IF m \in {4, 6, 9, 11} THEN 30 ELSE 31

NextDay(d) ==
    IF d.day < DaysInMonth(d.year, d.month)
      THEN [d EXCEPT !.day = d.day + 1]
    ELSE IF d.month < 12
      THEN [year |-> d.year, month |-> d.month + 1, day |-> 1]
    ELSE [year |-> d.year + 1, month |-> 1, day |-> 1]

\* Timestamp.date(): the calendar date of a timestamp, its time of day dropped
RECURSIVE OrdinalDate(_)
OrdinalDate(o) == IF o = 0 THEN Epoch ELSE NextDay(OrdinalDate(o - 1))

DtDate(ts) == OrdinalDate(ts.date)

\* to_period("M").astype(str): "YYYY-MM", kept as its two numbers
YearMonth(ts) == [year |-> DtDate(ts).year, month |-> DtDate(ts).month]

\* pd.to_datetime("YYYY-MM"): midnight of the first day of that month
MonthStart(ym) == [year |-> ym.year, month |-> ym.month, day |-> 1, time |-> 0]

\* strftime("%Y-%m-%d")
Strftime(ts) == DtDate(ts)

DateLeq(a, b) ==
    \/ a.year < b.year
    \/ a.year = b.year /\ a.month < b.month
    \/ a.year = b.year /\ a.month = b.month /\ a.day <= b.day

TimestampLess(a, b) == a.date < b.date \/ (a.date = b.date /\ a.time < b.time)

MonthStartLess(a, b) ==
    a.year < b.year \/ (a.year = b.year /\ a.month < b.month)


----------------------------------------------------------------------------
(* pandas: the operations main() applies to its frames                     *)

\* The strings of the model in lexicographic order: sorted() and the group
\* keys of groupby() order names by it.
SortedNames ==
    <<"A", "B", "Cleaning", "Electrical", "Gardening", "Insurance", "Lifts",
      "Repairs">>

NameRank(name) == CHOOSE i \in 1..Len(SortedNames) : SortedNames[i] = name

\* sorted(set of names)
Sorted(names) ==
    LET n == Cardinality(names)
    IN  [p \in 1..n |->
           CHOOSE c \in names :
             Cardinality({d \in names : NameRank(d) < NameRank(c)}) = p - 1]

\* frame[mask], the rows whose mask is true with their order and index labels
\* kept, is SelectSeq(frame, mask).

\* The value of a datetime64 cell, the integer numpy sorts by
TimestampValue(ts) == ts.date * (MaxTime + 1) + ts.time

MonthStartValue(m) == m.year * 12 + m.month

\* sort_values(..., ascending) with its default kind="quicksort", which numpy
\* does not document as stable.  keys[i] is the sort key of s[i].  Rows of
\* different keys come in key order; rows of equal keys keep their order
\* (ties = "kept", what a stable sort gives) or come reversed (ties =
\* "reversed"), a property of the build that does not change during a run.
SortValues(s, keys, ascending, ties) ==
    LET n == Len(s)
        KeyBefore(i, j) == IF ascending THEN keys[i] < keys[j] ELSE keys[i] > keys[j]
        TieBefore(i, j) == IF ties = "kept" THEN i < j ELSE i > j
        Before(i, j) == KeyBefore(i, j) \/ (keys[i] = keys[j] /\ TieBefore(i, j))
    IN  [p \in 1..n |->
           s[CHOOSE i \in 1..n :
               Cardinality({j \in 1..n : Before(j, i)}) = p - 1]]

\* Series.head(n) / DataFrame.head(n)
HeadN(s, n) == SubSeq(s, 1, Min(n, Len(s)))

\* frame.iloc[start:stop]: Python slice semantics on 0-based positions
Iloc(frame, start, stop) ==
    LET n == Len(frame)
        Norm(i) == IF i < 0 THEN Max(i + n, 0) ELSE Min(i, n)
    IN  SubSeq(frame, Norm(start) + 1, Norm(stop))

\* frame.groupby("category")["invoiceGross"].sum(): one entry per category
\* of the frame, in ascending category order
GroupByCategorySum(frame) ==
    LET keys == Sorted({r.category : r \in Range(frame)})
        Total(c) ==
          LET rows == SelectSeq(frame, LAMBDA r : r.category = c)
          IN  SumSeq([i \in 1..Len(rows) |-> rows[i].invoiceGross])
    IN  [i \in 1..Len(keys) |-> [category |-> keys[i], invoiceGross |-> Total(keys[i])]]

\* frame.groupby(["yearMonth", "category"])["invoiceGross"].sum().reset_index():
\* one entry per (yearMonth, category) of the frame, ascending by yearMonth
\* and, within a yearMonth, by category
GroupByMonthCategorySum(frame) ==
    LET pairs == {<<r.yearMonth, r.category>> : r \in Range(frame)}
        Less(a, b) ==
          \/ MonthStartLess(a[1], b[1])
          \/ a[1] = b[1] /\ NameRank(a[2]) < NameRank(b[2])
        n == Cardinality(pairs)
        keys == [p \in 1..n |->
                   CHOOSE k \in pairs :
                     Cardinality({j \in pairs : Less(j, k)}) = p - 1]
        Total(k) ==
          LET rows == SelectSeq(frame,
                        LAMBDA r : r.yearMonth = k[1] /\ r.category = k[2])
          IN  SumSeq([i \in 1..Len(rows) |-> rows[i].invoiceGross])
    IN  [i \in 1..n |->
           [yearMonth |-> keys[i][1], category |-> keys[i][2],
            invoiceGross |-> Total(keys[i])]]

----------------------------------------------------------------------------
(* The loaded data                                                         *)

CategoryNames ==
    <<"Cleaning", "Electrical", "Gardening", "Insurance", "Lifts", "Repairs">>

SupplierNames == <<"A", "B">>

\* head(5) of the category totals
TopN == 5

\* The invoice dates of the data: midnight of the first day of the window,
\* and midnight and a later time of its last day.
InvoiceDateValues ==
    {[date |-> 0, time |-> 0], [date |-> MaxDay, time |-> 0],
     [date |-> MaxDay, time |-> MaxTime]}

\* Entries of data["contractorInvoices"] that vary in date, category and
\* supplier
GeneralInvoices ==
    [invoiceDate : InvoiceDateValues,
     category : {CategoryNames[1], CategoryNames[Len(CategoryNames)]},
     supplierName : Range(SupplierNames),
     invoiceGross : {1}]

\* Entries, dated at midnight, that vary in date and category
PagingInvoices ==
    [invoiceDate : {t \in InvoiceDateValues : t.time = 0},
     category : {CategoryNames[1], CategoryNames[Len(CategoryNames)]},
     supplierName : {SupplierNames[1]},
     invoiceGross : {1}]

\* Entries that vary in date, category and amount
AmountInvoices ==
    [invoiceDate : InvoiceDateValues,
     category : {CategoryNames[1], CategoryNames[Len(CategoryNames)]},
     supplierName : {SupplierNames[1]},
     invoiceGross : 1..MaxAmount]

\* Documents of TopN + 2 invoices: one invoice per category, by turns on the
\* first and on the second day of the window (the last day of a month and
\* the first day of the next) and of varying amount, then a second invoice
\* of the first category on the second day
ManyCategoryData ==
    {[i \in 1..(TopN + 2) |->
        [invoiceDate |-> [date |-> IF i % 2 = 1 /\ i <= TopN + 1 THEN 0 ELSE 1,
                          time |-> 0],
         category |-> CategoryNames[IF i <= TopN + 1 THEN i ELSE 1],
         supplierName |-> SupplierNames[1],
         invoiceGross |-> IF i <= TopN + 1 THEN a[i] ELSE 1]] :
       a \in [1..(TopN + 1) -> 1..MaxAmount]}

\* load_data(): the documents a session may load.  process_invoices fails on
\* a document without invoices, so every document holds at least one.
\* TableDocuments are the documents of the sessions in which the table is
\* inspected, ChartDocuments those of the sessions in which the charts are.
TableDocuments ==
    SeqsUpTo(GeneralInvoices, MaxGeneralRows) \cup SeqsOfLen(PagingInvoices, MaxRows)

ChartDocuments ==
    SeqsUpTo(AmountInvoices, MaxGeneralRows) \cup ManyCategoryData

\* process_invoices(data): one row per invoice, in document order, labelled
\* by the default RangeIndex, with the derived yearMonth
process_invoices(data) ==
    [i \in 1..Len(data) |->
       [index |-> i - 1,
        invoiceDate |-> data[i].invoiceDate,
        category |-> data[i].category,
        supplierName |-> data[i].supplierName,
        invoiceGross |-> data[i].invoiceGross,
        yearMonth |-> YearMonth(data[i].invoiceDate)]]

----------------------------------------------------------------------------
(* The controls (streamlit).  A control that is created with the same      *)
(* parameters as in the previous run returns the value the session holds   *)
(* for it; created with other parameters, or not created in the previous   *)
(* run, it is a new control and returns its default.                       *)

\* df["invoiceDate"].min().date() and .max().date(), as day ordinals
MinDay(frame) ==
    CHOOSE d \in {r.invoiceDate.date : r \in Range(frame)} :
      \A r \in Range(frame) : d <= r.invoiceDate.date

MaxDayOf(frame) ==
    CHOOSE d \in {r.invoiceDate.date : r \in Range(frame)} :
      \A r \in Range(frame) : d >= r.invoiceDate.date

\* st.sidebar.date_input("Date Range", value=(min_date, max_date), min_value,
\* max_value): no date, a start date alone while the range is being picked,
\* or a start and an end date, each within [min_date, max_date]
DateInputValues(frame) ==
    LET days == MinDay(frame)..MaxDayOf(frame)
    IN  {<<>>}
          \cup {<<OrdinalDate(a)>> : a \in days}
          \cup {<<OrdinalDate(p[1]), OrdinalDate(p[2])>> :
                  p \in {q \in days \X days : q[1] <= q[2]}}

DateInputDefault(frame) == <<OrdinalDate(MinDay(frame)), OrdinalDate(MaxDayOf(frame))>>

\* st.sidebar.selectbox(label, options): index 0 by default
Selectbox(options, previous_options, held) ==
    IF options = previous_options THEN held ELSE options[1]

\* st.selectbox("Rows per page", [10, 25, 50, 100], index=1).  The model
\* offers the sizes 1..MaxPageSize, so that a frame of MaxRows rows spans
\* several pages.
RowsPerPageOptions == [i \in 1..MaxPageSize |-> i]

RowsPerPageDefault == RowsPerPageOptions[Min(2, Len(RowsPerPageOptions))]

\* A page control that keeps the number it held whatever its bounds
NumberInputKeepingValue(max_value, previous_max_value, held) == held

\* st.number_input("Page", min_value=1, max_value=total_pages, value=1)
NumberInput(max_value, previous_max_value, held) ==
    IF max_value = previous_max_value THEN held ELSE 1

----------------------------------------------------------------------------
(* main(): the steps of one run                                            *)

\* DateRangeFilter comparing the timestamps, not their dates, with the bounds
DateRangeFilterByTimestamp(frame, date_range_value) ==
    IF Len(date_range_value) = 2
      THEN SelectSeq(frame,
             LAMBDA r : /\ DateLeq(date_range_value[1], DtDate(r.invoiceDate))
                        /\ DateLeq(DtDate(r.invoiceDate), date_range_value[2])
                        /\ (DtDate(r.invoiceDate) = date_range_value[2]
                              => r.invoiceDate.time = 0))
    ELSE frame

\* DateRangeFilter applying a lone bound as the start of an open range
DateRangeFilterOpenRange(frame, date_range_value) ==
    IF Len(date_range_value) = 2
      THEN SelectSeq(frame,
             LAMBDA r : /\ DateLeq(date_range_value[1], DtDate(r.invoiceDate))
                        /\ DateLeq(DtDate(r.invoiceDate), date_range_value[2]))
    ELSE IF Len(date_range_value) = 1
      THEN SelectSeq(frame,
             LAMBDA r : DateLeq(date_range_value[1], DtDate(r.invoiceDate)))
    ELSE frame

\* The date-range filter
DateRangeFilter(frame, date_range_value) ==
    IF Len(date_range_value) = 2
      THEN SelectSeq(frame,
             LAMBDA r : /\ DateLeq(date_range_value[1], DtDate(r.invoiceDate))
                        /\ DateLeq(DtDate(r.invoiceDate), date_range_value[2]))
    ELSE frame

\* ["All"] + sorted(df_filtered["category"].unique().tolist())
CategoryOptions(frame) == <<"All">> \o Sorted({r.category : r \in Range(frame)})

\* CategoryFilter taking its mask from the rows of df at the same positions
CategoryFilterByPosition(frame, selected) ==
    IF selected # "All"
      THEN LET kept == {i \in 1..Len(frame) : df[i].category = selected}
           IN  [p \in 1..Cardinality(kept) |->
                  frame[CHOOSE i \in kept :
                          Cardinality({j \in kept : j < i}) = p - 1]]
    ELSE frame

CategoryFilter(frame, selected) ==
    IF selected # "All"
      THEN SelectSeq(frame, LAMBDA r : r.category = selected)
    ELSE frame

\* ["All"] + sorted(df_filtered["supplierName"].unique().tolist())
SupplierOptions(frame) == <<"All">> \o Sorted({r.supplierName : r \in Range(frame)})

SupplierFilter(frame, selected) ==
    IF selected # "All"
      THEN SelectSeq(frame, LAMBDA r : r.supplierName = selected)
    ELSE frame

\* df_filtered["invoiceGross"].sum()
TotalAmount(frame) == SumSeq([i \in 1..Len(frame) |-> frame[i].invoiceGross])

\* CategoryTotals sorted in sort_values' default direction
CategoryTotalsAscending(frame, ties) ==
    LET sums == GroupByCategorySum(frame)
    IN  SortValues(sums, [i \in 1..Len(sums) |-> sums[i].invoiceGross], TRUE, ties)

\* groupby("category")["invoiceGross"].sum().sort_values(ascending=False)
CategoryTotals(frame, ties) ==
    LET sums == GroupByCategorySum(frame)
    IN  SortValues(sums, [i \in 1..Len(sums) |-> sums[i].invoiceGross], FALSE, ties)

\* TopCategories taking the head of the unsorted group sums
TopCategoriesUnsorted(frame, ties) ==
    LET top == HeadN(GroupByCategorySum(frame), TopN)
    IN  [i \in 1..Len(top) |-> top[i].category]

\* ....sort_values(ascending=False).head(5).index
TopCategories(frame, ties) ==
    LET top == HeadN(CategoryTotals(frame, ties), TopN)
    IN  [i \in 1..Len(top) |-> top[i].category]

\* category_monthly: grouped by (yearMonth, category), yearMonth turned into
\* a timestamp, sorted by it
CategoryMonthly(frame, ties) ==
    LET sums == GroupByMonthCategorySum(frame)
        dated == [i \in 1..Len(sums) |->
                    [sums[i] EXCEPT !.yearMonth = MonthStart(sums[i].yearMonth)]]
    IN  SortValues(dated,
                   [i \in 1..Len(dated) |-> MonthStartValue(dated[i].yearMonth)],
                   TRUE, ties)

\* category_monthly[category_monthly["category"].isin(top_categories)]
CategoryMonthlyFiltered(frame, ties) ==
    LET top == Range(TopCategories(frame, ties))
    IN  SelectSeq(CategoryMonthly(frame, ties), LAMBDA e : e.category \in top)

\* display_df: sorted by invoiceDate, most recent first, then the date
\* formatted and the columns renamed
DisplayFrame(frame, ties) ==
    LET sorted == SortValues(frame,
                    [i \in 1..Len(frame) |-> TimestampValue(frame[i].invoiceDate)],
                    FALSE, ties)
    IN  [i \in 1..Len(sorted) |->
           [index |-> sorted[i].index,
            Date |-> Strftime(sorted[i].invoiceDate),
            Category |-> sorted[i].category,
            Supplier |-> sorted[i].supplierName,
            InvoiceGross |-> sorted[i].invoiceGross]]

\* total_pages = (total_rows - 1) // rows_per_page + 1; \div floors as // does
TotalPages(total_rows, rows_per_page_value) ==
    (total_rows - 1) \div rows_per_page_value + 1

\* PageSlice counting the pages from 0
PageSliceFromZero(display, rows_per_page_value, total_pages_value, page_value) ==
    IF total_pages_value > 1
      THEN LET start_idx == page_value * rows_per_page_value
               end_idx == start_idx + rows_per_page_value
           IN  Iloc(display, start_idx, end_idx)
    ELSE display

\* display_df_page
PageSlice(display, rows_per_page_value, total_pages_value, page_value) ==
    IF total_pages_value > 1
      THEN LET start_idx == (page_value - 1) * rows_per_page_value
               end_idx == start_idx + rows_per_page_value
           IN  Iloc(display, start_idx, end_idx)
    ELSE display

\* display_df.to_csv(index=False): the header, then one record per row
CsvHeader == <<"Date", "Category", "Supplier", "Invoice Gross">>

ToCsv(display) ==
    <<CsvHeader>> \o
      [i \in 1..Len(display) |->
         <<display[i].Date, display[i].Category, display[i].Supplier,
           display[i].InvoiceGross>>]

\* Pagination writing the page on show to the download
PaginationExportingPage(display, rows_per_page_value, held_page, previous_total_pages) ==
    LET rows == Len(display)
        pages == TotalPages(rows, rows_per_page_value)
        shown == IF pages > 1
                   THEN NumberInput(pages,
                          IF previous_total_pages > 1 THEN previous_total_pages ELSE 0,
                          held_page)
                 ELSE 1
    IN  [total_rows |-> rows,
         total_pages |-> pages,
         requested_page |-> IF previous_total_pages > 1 THEN held_page ELSE 1,
         page |-> shown,
         display_df_page |-> PageSlice(display, rows_per_page_value, pages, shown),
         csv |-> ToCsv(PageSlice(display, rows_per_page_value, pages, shown))]

\* The table and the download: everything main() does after display_df
Pagination(display, rows_per_page_value, held_page, previous_total_pages) ==
    LET rows == Len(display)
        pages == TotalPages(rows, rows_per_page_value)
        shown == IF pages > 1
                   THEN NumberInput(pages,
                          IF previous_total_pages > 1 THEN previous_total_pages ELSE 0,
                          held_page)
                 ELSE 1
    IN  [total_rows |-> rows,
         total_pages |-> pages,
         requested_page |-> IF previous_total_pages > 1 THEN held_page ELSE 1,
         page |-> shown,
         display_df_page |-> PageSlice(display, rows_per_page_value, pages, shown),
         csv |-> ToCsv(display)]

\* One run of main() on frame dfv.  session is what the session holds when
\* the run begins: for each control the value it holds (date_range,
\* selected_category, selected_supplier, rows_per_page, page) and what the
\* previous run created the control with (categories, suppliers,
\* total_pages; <<>> and 0 when it did not create it).  In the result,
\* requested_page is the page number held when the run began (1 when none
\* was held) and page the number the page control returned (1 when the run
\* created no page control).
Main(dfv, ties, session) ==
    LET by_date == DateRangeFilter(dfv, session.date_range)
        cats == CategoryOptions(by_date)
        cat == Selectbox(cats, session.categories, session.selected_category)
        by_category == CategoryFilter(by_date, cat)
        sups == SupplierOptions(by_category)
        sup == Selectbox(sups, session.suppliers, session.selected_supplier)
        filtered == SupplierFilter(by_category, sup)
        display == DisplayFrame(filtered, ties)
        table == Pagination(display, session.rows_per_page, session.page,
                            session.total_pages)
    IN  [date_range |-> session.date_range,
         categories |-> cats,
         selected_category |-> cat,
         suppliers |-> sups,
         selected_supplier |-> sup,
         df_filtered |-> filtered,
         total_invoices |-> Len(filtered),
         total_amount |-> TotalAmount(filtered),
         category_totals |-> CategoryTotals(filtered, ties),
         top_categories |-> TopCategories(filtered, ties),
         category_monthly_filtered |-> CategoryMonthlyFiltered(filtered, ties),
         rows_per_page |-> session.rows_per_page,
         display_df |-> display,
         total_rows |-> table.total_rows,
         total_pages |-> table.total_pages,
         requested_page |-> table.requested_page,
         page |-> table.page,
         display_df_page |-> table.display_df_page,
         csv |-> table.csv]

\* A new session: every control at its default, none created yet
NewSession(dfv) ==
    [date_range |-> DateInputDefault(dfv),
     categories |-> <<>>,
     selected_category |-> "All",
     suppliers |-> <<>>,
     selected_supplier |-> "All",
     rows_per_page |-> RowsPerPageDefault,
     page |-> 1,
     total_pages |-> 0]

----------------------------------------------------------------------------
(* The state machine                                                       *)

\* The session starts: the data is loaded and main() runs with every control
\* at its default.
Init ==
    /\ df \in {process_invoices(data) : data \in TableDocuments}
    /\ sort_ties \in {"kept", "reversed"}
    /\ run = Main(df, sort_ties, NewSession(df))

\* The user picks another date range.
SetDateRange ==
    /\ \E value \in DateInputValues(df) \ {run.date_range} :
         run' = Main(df, sort_ties, [run EXCEPT !.date_range = value])
    /\ UNCHANGED <<df, sort_ties>>

\* The user picks another category.
SelectCategory ==
    /\ \E value \in Range(run.categories) \ {run.selected_category} :
         run' = Main(df, sort_ties, [run EXCEPT !.selected_category = value])
    /\ UNCHANGED <<df, sort_ties>>

\* The user picks another supplier.
SelectSupplier ==
    /\ \E value \in Range(run.suppliers) \ {run.selected_supplier} :
         run' = Main(df, sort_ties, [run EXCEPT !.selected_supplier = value])
    /\ UNCHANGED <<df, sort_ties>>

\* The user picks another number of rows per page.
SelectRowsPerPage ==
    /\ \E value \in Range(RowsPerPageOptions) \ {run.rows_per_page} :
         run' = Main(df, sort_ties, [run EXCEPT !.rows_per_page = value])
    /\ UNCHANGED <<df, sort_ties>>

\* The user picks another page; the control exists only when total_pages > 1.
SetPage ==
    /\ run.total_pages > 1
    /\ \E value \in (1..run.total_pages) \ {run.page} :
         run' = Main(df, sort_ties, [run EXCEPT !.page = value])
    /\ UNCHANGED <<df, sort_ties>>

Next ==
    \/ SetDateRange
    \/ SelectCategory
    \/ SelectSupplier
    \/ SelectRowsPerPage
    \/ SetPage

Spec == Init /\ [][Next]_vars

\* A session in which the user works the sidebar filters only and reads the
\* metrics and charts, which no control of the table changes.
InitCharts ==
    /\ df \in {process_invoices(data) : data \in ChartDocuments}
    /\ sort_ties \in {"kept", "reversed"}
    /\ run = Main(df, sort_ties, NewSession(df))

NextCharts ==
    \/ SetDateRange
    \/ SelectCategory
    \/ SelectSupplier

SpecCharts == InitCharts /\ [][NextCharts]_vars

----------------------------------------------------------------------------
(* The filter engine                                                       *)

\* The day ordinal of a calendar date of the window
DayOrdinal(d) == CHOOSE o \in 0..(MaxDay + 1) : OrdinalDate(o) = d

\* Row r meets the category and the supplier choice
MeetsChoices(r) ==
    /\ run.selected_category = "All" \/ r.category = run.selected_category
    /\ run.selected_supplier = "All" \/ r.supplierName = run.selected_supplier

\* Row r is dated, whatever its time of day, from the start day to the end
\* day of a two-bound range
WithinRange(r) ==
    /\ DayOrdinal(run.date_range[1]) <= r.invoiceDate.date
    /\ r.invoiceDate.date <= DayOrdinal(run.date_range[2])

\* C1: with a two-bound date range the filtered set is exactly the rows of
\* the input, in input order, whose calendar date lies in [start, end], bounds
\* included, and whose category and supplier equal the choices, "All"
\* constraining nothing.
C1_FilteredSetIsExact ==
    Len(run.date_range) = 2 =>
      run.df_filtered =
        SelectSeq(df, LAMBDA r : WithinRange(r) /\ MeetsChoices(r))

\* C1's case: all three criteria constrain, a row dated later in the end day
\* is kept and a row is removed.
C1_Witness ==
    /\ Len(run.date_range) = 2
    /\ run.selected_category # "All"
    /\ run.selected_supplier # "All"
    /\ Len(run.df_filtered) < Len(df)
    /\ \E r \in Range(run.df_filtered) :
         r.invoiceDate.time > 0 /\ DtDate(r.invoiceDate) = run.date_range[2]

\* C4, as claimed: a date range of one bound removes the rows on the excluded
\* side of that bound, be the bound a start or an end.
C4_LoneBoundApplied ==
    Len(run.date_range) = 1 =>
      \/ \A r \in Range(run.df_filtered) :
           DayOrdinal(run.date_range[1]) <= r.invoiceDate.date
      \/ \A r \in Range(run.df_filtered) :
           r.invoiceDate.date <= DayOrdinal(run.date_range[1])

\* C4, amended: a date range of one bound is not applied at all; the filtered
\* set is the rows that meet the category and supplier choices, whatever
\* their dates.
C4_LoneBoundIgnored ==
    Len(run.date_range) = 1 =>
      run.df_filtered = SelectSeq(df, LAMBDA r : MeetsChoices(r))

\* C4's case: one bound, and rows on either side of it are kept.
C4_Witness ==
    /\ Len(run.date_range) = 1
    /\ \E r \in Range(run.df_filtered) :
         r.invoiceDate.date < DayOrdinal(run.date_range[1])
    /\ \E r \in Range(run.df_filtered) :
         r.invoiceDate.date > DayOrdinal(run.date_range[1])

\* C9: filtering the filtered set again by the same criteria gives the same
\* rows in the same order.
C9_FilterIdempotent ==
    SupplierFilter(
      CategoryFilter(DateRangeFilter(run.df_filtered, run.date_range),
                     run.selected_category),
      run.selected_supplier) = run.df_filtered

\* C9's case: every criterion constrains, rows were removed and rows remain.
C9_Witness ==
    /\ Len(run.date_range) = 2
    /\ run.selected_category # "All"
    /\ run.selected_supplier # "All"
    /\ Len(run.df_filtered) < Len(df)
    /\ Len(run.df_filtered) > 0

----------------------------------------------------------------------------
(* The table formatter                                                     *)

\* The least k with k * d >= n
Ceiling(n, d) == CHOOSE k \in 0..n : k * d >= n /\ (k = 0 \/ (k - 1) * d < n)

\* The row of df that a row of display_df shows
Shown(display_row) == df[display_row.index + 1]

\* Page k of the table as main() cuts it
PageOf(k) == PageSlice(run.display_df, run.rows_per_page, run.total_pages, k)

\* C2, as claimed: the page count is max(1, ceil(total_rows / page_size)), so
\* 1 and not 0 for an empty filtered set.
C2_PageCountAtLeastOne ==
    run.total_pages = Max(1, Ceiling(run.total_rows, run.rows_per_page))

\* C3: the pages 1..total_pages, one after the other, are the display set,
\* each page but the last holds rows_per_page rows, and the page on show is
\* the page of its number.
C3_PagesPartitionDisplaySet ==
    /\ Concat([k \in 1..run.total_pages |-> PageOf(k)]) = run.display_df
    /\ \A k \in 1..(run.total_pages - 1) : Len(PageOf(k)) = run.rows_per_page
    /\ run.total_pages >= 1 => run.display_df_page = PageOf(run.page)

\* C3's case: several pages, the last one short, and it is on show.
C3_Witness ==
    /\ run.total_pages > 1
    /\ run.total_rows % run.rows_per_page # 0
    /\ run.page = run.total_pages
    /\ Len(run.display_df_page) < run.rows_per_page

DisplayRecords ==
    [i \in 1..Len(run.display_df) |->
       <<Strftime(Shown(run.display_df[i]).invoiceDate),
         Shown(run.display_df[i]).category,
         Shown(run.display_df[i]).supplierName,
         Shown(run.display_df[i]).invoiceGross>>]

\* C6: the export is the header and every row of the filtered display set,
\* in display order, whatever the page and the rows per page, and a run that
\* changes no filter leaves the export as it was.
C6_ExportIsWholeDisplaySet ==
    /\ [](/\ run.csv = <<CsvHeader>> \o DisplayRecords
          /\ Len(run.csv) = Len(run.df_filtered) + 1
          /\ {row.index : row \in Range(run.display_df)}
               = {row.index : row \in Range(run.df_filtered)})
    /\ [][(/\ run'.date_range = run.date_range
           /\ run'.selected_category = run.selected_category
           /\ run'.selected_supplier = run.selected_supplier)
            => run'.csv = run.csv]_vars

\* C6's case: a page after the first is on show and the export holds more
\* rows than the page.
C6_Witness ==
    /\ run.total_pages > 1
    /\ run.page > 1
    /\ Len(run.csv) > Len(run.display_df_page) + 1

\* The valid page nearest to page number p
NearestValidPage(p) == Max(1, Min(p, run.total_pages))

\* C7, as claimed: when the page number held for the page control lies
\* outside [1, total_pages], the page on show is the nearest valid page.
C7_NearestValidPageShown ==
    (run.total_pages >= 1 /\ run.requested_page \notin 1..run.total_pages) =>
      run.display_df_page = PageOf(NearestValidPage(run.requested_page))

\* C7, amended: no run shows a slice outside the display set: with several
\* pages the page on show is a page of [1, total_pages] and holds its rows,
\* with at most one page the whole display set is on show; and when the page
\* number held lies outside [1, total_pages], the page on show is page 1.
C7_ValidPageShown ==
    /\ run.total_pages > 1 =>
         /\ run.page \in 1..run.total_pages
         /\ run.display_df_page =
              SubSeq(run.display_df, (run.page - 1) * run.rows_per_page + 1,
                     Min(run.page * run.rows_per_page, run.total_rows))
         /\ Len(run.display_df_page) >= 1
    /\ run.total_pages <= 1 => run.display_df_page = run.display_df
    /\ (run.total_pages > 1 /\ run.requested_page \notin 1..run.total_pages) =>
         run.page = 1

\* C7's case: the filtered set shrank, the page number held is past the last
\* page, and several pages remain.
C7_Witness ==
    /\ run.total_pages > 1
    /\ run.requested_page > run.total_pages
    /\ run.page = 1

----------------------------------------------------------------------------
(* The aggregator                                                          *)

\* The categories of the filtered set
FilteredCategories == {r.category : r \in Range(run.df_filtered)}

\* The sum of invoiceGross over a set of rows
RECURSIVE GrossOver(_)
GrossOver(rows) ==
    IF rows = {} THEN 0
    ELSE LET r == CHOOSE x \in rows : TRUE
         IN  r.invoiceGross + GrossOver(rows \ {r})

CategoryGross(c) == GrossOver({r \in Range(run.df_filtered) : r.category = c})

\* C8: the category totals hold one entry per category of the filtered set,
\* in descending order of total, and their totals add up to the key metric
\* total_amount, the sum of invoiceGross over the filtered rows.
C8_CategoryTotalsAddUp ==
    /\ {e.category : e \in Range(run.category_totals)} = FilteredCategories
    /\ Len(run.category_totals) = Cardinality(FilteredCategories)
    /\ \A i, j \in 1..Len(run.category_totals) :
         i < j => run.category_totals[i].invoiceGross
                    >= run.category_totals[j].invoiceGross
    /\ SumSeq([i \in 1..Len(run.category_totals) |->
                 run.category_totals[i].invoiceGross]) = run.total_amount
    /\ run.total_amount = GrossOver(Range(run.df_filtered))

\* C8's case: categories of different totals, one of them with two rows.
C8_Witness ==
    /\ \E c, d \in FilteredCategories : CategoryGross(c) < CategoryGross(d)
    /\ \E c \in FilteredCategories :
         Cardinality({r \in Range(run.df_filtered) : r.category = c}) > 1

\* The (yearMonth, category) pairs of the filtered rows of the top categories
TopPairs ==
    {<<r.yearMonth, r.category>> :
       r \in {x \in Range(run.df_filtered) :
                x.category \in Range(run.top_categories)}}

\* C10: the top categories are the TopN categories of highest total over the
\* whole filtered set (all of them when there are fewer); the breakdown has
\* exactly one entry per (yearMonth, category) of the filtered rows of those
\* categories, its metric their sum of invoiceGross, no entry of another
\* category, and the entries are in ascending yearMonth order.
C10_TopCategoryBreakdown ==
    LET top == Range(run.top_categories)
        out == run.category_monthly_filtered
        Pair(e) == <<[year |-> e.yearMonth.year, month |-> e.yearMonth.month],
                     e.category>>
    IN  /\ top \subseteq FilteredCategories
        /\ Cardinality(top) = Min(TopN, Cardinality(FilteredCategories))
        /\ \A c \in top : \A d \in FilteredCategories \ top :
             CategoryGross(c) >= CategoryGross(d)
        /\ {Pair(e) : e \in Range(out)} = TopPairs
        /\ Len(out) = Cardinality(TopPairs)
        /\ \A e \in Range(out) :
             /\ e.category \in top
             /\ e.invoiceGross =
                  GrossOver({r \in Range(run.df_filtered) :
                               <<r.yearMonth, r.category>> = Pair(e)})
        /\ \A i, j \in 1..Len(out) :
             i < j => ~MonthStartLess(out[j].yearMonth, out[i].yearMonth)

\* C10's case: more than TopN categories, so one is dropped, whose total is
\* below another's; a top category has entries in two months.
C10_Witness ==
    /\ Cardinality(FilteredCategories) > TopN
    /\ \E d \in FilteredCategories \ Range(run.top_categories) :
         \E c \in Range(run.top_categories) : CategoryGross(d) < CategoryGross(c)
    /\ \E e, f \in Range(run.category_monthly_filtered) :
         e.category = f.category /\ e.yearMonth # f.yearMonth

=============================================================================
